---- MODULE Spec2Model ----
(***************************************************************************)
(* Verification model of windows-service-rs: the domain enums and exit     *)
(* code of src/src/service.rs and the service enumeration                  *)
(* ServiceManager::list_services of src/src/service_manager.rs.            *)
(*                                                                         *)
(* The specifications share the module's variables:                        *)
(*   SpecEnum  the from_raw / to_raw conversions of the domain enums,      *)
(*   SpecExit  ServiceExitCode::copy_to and its two From conversions,      *)
(*   SpecStatus ServiceStatus::to_raw followed by ServiceStatus::from_raw,  *)
(*   SpecCreate ServiceManager::create_service,                             *)
(*   SpecService the operations of a Service up to its delete or drop,      *)
(*   Spec      list_services, one action per platform call or step.        *)
(***************************************************************************)
EXTENDS Integers, Naturals, Sequences, FiniteSets, TLC

VARIABLES
  \* ---- SpecEnum
  raw_value,             \* the u32 handed to the from_raw functions
  decoded,               \* the results of the from_raw functions so far
  reencoded,             \* to_raw of the decoded ServiceType, if taken
  \* ---- SpecExit
  exit_code,             \* the ServiceExitCode being encoded
  raw_service_status,    \* the SERVICE_STATUS exit-code fields copy_to wrote
  exit_decoded,          \* the ServiceExitCode decoded back from the record
  \* ---- SpecStatus
  status_in,             \* the ServiceStatus handed to to_raw
  status_raw,            \* the SERVICE_STATUS to_raw built
  status_out,            \* the result of from_raw on that record
  \* ---- SpecCreate
  service_info,          \* the ServiceInfo handed to create_service
  create_pc,             \* where create_service stands
  wide_fields,           \* the encoded name, display name, account name and password
  launch_command,        \* the launch command handed to the platform
  create_call,           \* the CreateServiceW call issued, if any
  create_result,         \* what create_service returned
  \* ---- SpecService
  service,               \* the Service value: its handle and whether it is still owned
  svc_calls,             \* the platform calls issued on the service's handle
  svc_result,            \* what the last Service operation returned
  \* ---- Spec (list_services)
  pc,                    \* position in list_services
  last_error,            \* the thread's last-error value (GetLastError)
  pcb_bytes_needed,      \* service_manager.rs:247
  lp_services_returned,  \* service_manager.rs:248
  lp_services,           \* the enumeration buffer, service_manager.rs:267
  enum_result,           \* EnumListServiceResult {index, size}
  service_status,        \* the record the iterator yielded last
  handle_service,        \* service_manager.rs:286, 0 is the null handle
  cfg_bytes_needed,      \* the inner pcb_bytes_needed, service_manager.rs:290
  query_service_config,  \* the configuration buffer tmp, service_manager.rs:294
  service_list,          \* service_manager.rs:245
  result,                \* what list_services returned
  \* ---- the platform's side of list_services, and its history
  open_handles,          \* service handles the platform holds open
  calls,                 \* the platform calls issued, in order
  reads                  \* byte offsets of the buffer the iterator has read

enumVars == <<raw_value, decoded, reencoded>>
exitVars == <<exit_code, raw_service_status, exit_decoded>>
statusVars == <<status_in, status_raw, status_out>>
serviceVars == <<service, svc_calls, svc_result>>
createVars ==
  <<service_info, create_pc, wide_fields, launch_command, create_call, create_result>>
listVars == <<pc, last_error, pcb_bytes_needed, lp_services_returned, lp_services,
              enum_result, service_status, handle_service, cfg_bytes_needed,
              query_service_config, service_list, result, open_handles,
              calls, reads>>
vars == <<enumVars, exitVars, statusVars, createVars, serviceVars, listVars>>

-----------------------------------------------------------------------------
(* Bounds *)

\* raw codes 0..MaxRaw are enumerated; all enum codes and the exit-code
\* sentinel lie below it
MaxRaw == 1100
\* a Service is queried or controlled at most this many times
MaxServiceCalls == 3
\* a ServiceInfo carries at most this many launch arguments
MaxArgs == 2
\* wait hints of 0..MaxWaitMs whole milliseconds are enumerated
MaxWaitMs == 2000
\* the platform database holds at most this many services
MaxServices == 2
\* bytes of string data the platform stores in the buffer per record
NameBytes == 24

\* the u32 raw codes enumerated
RawCodes == 0 .. MaxRaw

-----------------------------------------------------------------------------
(* Platform constants (winapi) referenced by the source *)

SERVICE_KERNEL_DRIVER == 1
SERVICE_FILE_SYSTEM_DRIVER == 2
SERVICE_ADAPTER == 4
SERVICE_RECOGNIZER_DRIVER == 8
SERVICE_WIN32_OWN_PROCESS == 16
SERVICE_WIN32_SHARE_PROCESS == 32
SERVICE_USER_SERVICE == 64
SERVICE_USERSERVICE_INSTANCE == 128
SERVICE_INTERACTIVE_PROCESS == 256
SERVICE_PKG_SERVICE == 512
InvalidServiceTypeRaw == 288

SERVICE_BOOT_START == 0
SERVICE_SYSTEM_START == 1
SERVICE_AUTO_START == 2
SERVICE_DEMAND_START == 3
SERVICE_DISABLED == 4

SERVICE_ERROR_IGNORE == 0
SERVICE_ERROR_NORMAL == 1
SERVICE_ERROR_SEVERE == 2
SERVICE_ERROR_CRITICAL == 3

SERVICE_CONTROL_STOP == 1
SERVICE_CONTROL_PAUSE == 2
SERVICE_CONTROL_CONTINUE == 3
SERVICE_CONTROL_INTERROGATE == 4
SERVICE_CONTROL_SHUTDOWN == 5
SERVICE_CONTROL_PARAMCHANGE == 6
SERVICE_CONTROL_NETBINDADD == 7
SERVICE_CONTROL_NETBINDREMOVE == 8
SERVICE_CONTROL_NETBINDENABLE == 9
SERVICE_CONTROL_NETBINDDISABLE == 10
SERVICE_CONTROL_PRESHUTDOWN == 15

SERVICE_STOPPED == 1
SERVICE_START_PENDING == 2
SERVICE_STOP_PENDING == 3
SERVICE_RUNNING == 4
SERVICE_CONTINUE_PENDING == 5
SERVICE_PAUSE_PENDING == 6
SERVICE_PAUSED == 7

ERROR_SERVICE_SPECIFIC_ERROR == 1066
NO_ERROR == 0
ERROR_ACCESS_DENIED == 5
ERROR_INVALID_HANDLE == 6
ERROR_INSUFFICIENT_BUFFER == 122
ERROR_MORE_DATA == 234

\* mem::size_of::<ENUM_SERVICE_STATUS_PROCESSW>() on a 64-bit target
RecordSize == 56

-----------------------------------------------------------------------------
(* Result<T>: Ok(value) or Err(ErrorKind(raw)) *)

Ok(v) == [ok |-> TRUE, val |-> v, kind |-> "", raw |-> 0]
Err(k, r) == [ok |-> FALSE, val |-> "", kind |-> k, raw |-> r]

-----------------------------------------------------------------------------
(* ServiceType, service.rs:15-54 *)

\* the codes of the enum declaration, its sentinel InvalidServiceType aside
KnownServiceTypeCodes ==
  { SERVICE_FILE_SYSTEM_DRIVER, SERVICE_KERNEL_DRIVER, SERVICE_ADAPTER,
    SERVICE_RECOGNIZER_DRIVER, SERVICE_WIN32_OWN_PROCESS, SERVICE_WIN32_SHARE_PROCESS,
    SERVICE_USER_SERVICE, SERVICE_USERSERVICE_INSTANCE, SERVICE_INTERACTIVE_PROCESS,
    SERVICE_PKG_SERVICE }

ServiceTypeVariants ==
  { "FileSystemDriver", "KernelDriver", "Adapter", "RecognizerDriver",
    "OwnProcess", "Win32ShareProcess", "UserService", "UserServiceInstance",
    "InteractiveProcess", "PkgService", "InvalidServiceType" }

\* `*self as u32`: the discriminant the enum declaration gives the variant
ServiceType_to_raw(v) ==
  CASE v = "FileSystemDriver" -> SERVICE_FILE_SYSTEM_DRIVER
    [] v = "KernelDriver" -> SERVICE_KERNEL_DRIVER
    [] v = "Adapter" -> SERVICE_ADAPTER
    [] v = "RecognizerDriver" -> SERVICE_RECOGNIZER_DRIVER
    [] v = "OwnProcess" -> SERVICE_WIN32_OWN_PROCESS
    [] v = "Win32ShareProcess" -> SERVICE_WIN32_SHARE_PROCESS
    [] v = "UserService" -> SERVICE_USER_SERVICE
    [] v = "UserServiceInstance" -> SERVICE_USERSERVICE_INSTANCE
    [] v = "InteractiveProcess" -> SERVICE_INTERACTIVE_PROCESS
    [] v = "PkgService" -> SERVICE_PKG_SERVICE
    [] v = "InvalidServiceType" -> InvalidServiceTypeRaw

\* a mutation: the strict policy of the other enums (the line the source
\* keeps commented out at service.rs:44)
ServiceType_from_raw_Strict(raw) ==
  IF \E v \in ServiceTypeVariants \ {"InvalidServiceType"} : ServiceType_to_raw(v) = raw
    THEN Ok(CHOOSE v \in ServiceTypeVariants \ {"InvalidServiceType"} :
              ServiceType_to_raw(v) = raw)
    ELSE Err("InvalidServiceType", raw)

\* a mutation: the arms of the first two codes exchanged
ServiceType_from_raw_Swapped(raw) ==
  IF raw = ServiceType_to_raw("FileSystemDriver") THEN Ok("KernelDriver")
  ELSE IF raw = ServiceType_to_raw("KernelDriver") THEN Ok("FileSystemDriver")
  ELSE IF ServiceType_from_raw_Strict(raw).ok THEN ServiceType_from_raw_Strict(raw)
  ELSE Ok("InvalidServiceType")

\* the match of service.rs:32-47, arms tried in source order
ServiceType_from_raw(raw) ==
  IF raw = ServiceType_to_raw("FileSystemDriver") THEN Ok("FileSystemDriver")
  ELSE IF raw = ServiceType_to_raw("KernelDriver") THEN Ok("KernelDriver")
  ELSE IF raw = ServiceType_to_raw("Adapter") THEN Ok("Adapter")
  ELSE IF raw = ServiceType_to_raw("RecognizerDriver") THEN Ok("RecognizerDriver")
  ELSE IF raw = ServiceType_to_raw("OwnProcess") THEN Ok("OwnProcess")
  ELSE IF raw = ServiceType_to_raw("Win32ShareProcess") THEN Ok("Win32ShareProcess")
  ELSE IF raw = ServiceType_to_raw("UserService") THEN Ok("UserService")
  ELSE IF raw = ServiceType_to_raw("UserServiceInstance") THEN Ok("UserServiceInstance")
  ELSE IF raw = ServiceType_to_raw("InteractiveProcess") THEN Ok("InteractiveProcess")
  ELSE IF raw = ServiceType_to_raw("PkgService") THEN Ok("PkgService")
  ELSE Ok("InvalidServiceType")

-----------------------------------------------------------------------------
(* ServiceStartType, service.rs:83-110 *)

KnownServiceStartTypeCodes ==
  { SERVICE_BOOT_START, SERVICE_AUTO_START, SERVICE_DEMAND_START, SERVICE_DISABLED,
    SERVICE_SYSTEM_START }

ServiceStartType_to_raw(v) ==
  CASE v = "BootStart" -> SERVICE_BOOT_START
    [] v = "AutoStart" -> SERVICE_AUTO_START
    [] v = "OnDemand" -> SERVICE_DEMAND_START
    [] v = "Disabled" -> SERVICE_DISABLED
    [] v = "SystemStart" -> SERVICE_SYSTEM_START

ServiceStartType_from_raw(raw) ==
  IF raw = ServiceStartType_to_raw("AutoStart") THEN Ok("AutoStart")
  ELSE IF raw = ServiceStartType_to_raw("BootStart") THEN Ok("BootStart")
  ELSE IF raw = ServiceStartType_to_raw("OnDemand") THEN Ok("OnDemand")
  ELSE IF raw = ServiceStartType_to_raw("SystemStart") THEN Ok("SystemStart")
  ELSE IF raw = ServiceStartType_to_raw("Disabled") THEN Ok("Disabled")
  ELSE Err("InvalidServiceStartType", raw)

-----------------------------------------------------------------------------
(* ServiceErrorControl, service.rs:117-139 *)

KnownServiceErrorControlCodes ==
  { SERVICE_ERROR_CRITICAL, SERVICE_ERROR_IGNORE, SERVICE_ERROR_NORMAL,
    SERVICE_ERROR_SEVERE }

ServiceErrorControl_to_raw(v) ==
  CASE v = "Critical" -> SERVICE_ERROR_CRITICAL
    [] v = "Ignore" -> SERVICE_ERROR_IGNORE
    [] v = "Normal" -> SERVICE_ERROR_NORMAL
    [] v = "Severe" -> SERVICE_ERROR_SEVERE

\* the fall-through arm builds ErrorKind::InvalidServiceStartType (service.rs:135)
ServiceErrorControl_from_raw(raw) ==
  IF raw = ServiceErrorControl_to_raw("Critical") THEN Ok("Critical")
  ELSE IF raw = ServiceErrorControl_to_raw("Ignore") THEN Ok("Ignore")
  ELSE IF raw = ServiceErrorControl_to_raw("Normal") THEN Ok("Normal")
  ELSE IF raw = ServiceErrorControl_to_raw("Severe") THEN Ok("Severe")
  ELSE Err("InvalidServiceStartType", raw)

-----------------------------------------------------------------------------
(* ServiceControl, service.rs:180-216 *)

KnownServiceControlCodes ==
  { SERVICE_CONTROL_CONTINUE, SERVICE_CONTROL_INTERROGATE, SERVICE_CONTROL_NETBINDADD,
    SERVICE_CONTROL_NETBINDDISABLE, SERVICE_CONTROL_NETBINDENABLE,
    SERVICE_CONTROL_NETBINDREMOVE, SERVICE_CONTROL_PARAMCHANGE, SERVICE_CONTROL_PAUSE,
    SERVICE_CONTROL_PRESHUTDOWN, SERVICE_CONTROL_SHUTDOWN, SERVICE_CONTROL_STOP }

ServiceControl_to_raw(v) ==
  CASE v = "Continue" -> SERVICE_CONTROL_CONTINUE
    [] v = "Interrogate" -> SERVICE_CONTROL_INTERROGATE
    [] v = "NetBindAdd" -> SERVICE_CONTROL_NETBINDADD
    [] v = "NetBindDisable" -> SERVICE_CONTROL_NETBINDDISABLE
    [] v = "NetBindEnable" -> SERVICE_CONTROL_NETBINDENABLE
    [] v = "NetBindRemove" -> SERVICE_CONTROL_NETBINDREMOVE
    [] v = "ParamChange" -> SERVICE_CONTROL_PARAMCHANGE
    [] v = "Pause" -> SERVICE_CONTROL_PAUSE
    [] v = "Preshutdown" -> SERVICE_CONTROL_PRESHUTDOWN
    [] v = "Shutdown" -> SERVICE_CONTROL_SHUTDOWN
    [] v = "Stop" -> SERVICE_CONTROL_STOP

ServiceControl_from_raw(raw) ==
  IF raw = ServiceControl_to_raw("Continue") THEN Ok("Continue")
  ELSE IF raw = ServiceControl_to_raw("Interrogate") THEN Ok("Interrogate")
  ELSE IF raw = ServiceControl_to_raw("NetBindAdd") THEN Ok("NetBindAdd")
  ELSE IF raw = ServiceControl_to_raw("NetBindDisable") THEN Ok("NetBindDisable")
  ELSE IF raw = ServiceControl_to_raw("NetBindEnable") THEN Ok("NetBindEnable")
  ELSE IF raw = ServiceControl_to_raw("NetBindRemove") THEN Ok("NetBindRemove")
  ELSE IF raw = ServiceControl_to_raw("ParamChange") THEN Ok("ParamChange")
  ELSE IF raw = ServiceControl_to_raw("Pause") THEN Ok("Pause")
  ELSE IF raw = ServiceControl_to_raw("Preshutdown") THEN Ok("Preshutdown")
  ELSE IF raw = ServiceControl_to_raw("Shutdown") THEN Ok("Shutdown")
  ELSE IF raw = ServiceControl_to_raw("Stop") THEN Ok("Stop")
  ELSE Err("InvalidServiceControl", raw)

-----------------------------------------------------------------------------
(* ServiceState, service.rs:221-249 *)

KnownServiceStateCodes ==
  { SERVICE_STOPPED, SERVICE_START_PENDING, SERVICE_STOP_PENDING, SERVICE_RUNNING,
    SERVICE_CONTINUE_PENDING, SERVICE_PAUSE_PENDING, SERVICE_PAUSED }

ServiceState_to_raw(v) ==
  CASE v = "Stopped" -> SERVICE_STOPPED
    [] v = "StartPending" -> SERVICE_START_PENDING
    [] v = "StopPending" -> SERVICE_STOP_PENDING
    [] v = "Running" -> SERVICE_RUNNING
    [] v = "ContinuePending" -> SERVICE_CONTINUE_PENDING
    [] v = "PausePending" -> SERVICE_PAUSE_PENDING
    [] v = "Paused" -> SERVICE_PAUSED

ServiceState_from_raw(raw) ==
  IF raw = ServiceState_to_raw("Stopped") THEN Ok("Stopped")
  ELSE IF raw = ServiceState_to_raw("StartPending") THEN Ok("StartPending")
  ELSE IF raw = ServiceState_to_raw("StopPending") THEN Ok("StopPending")
  ELSE IF raw = ServiceState_to_raw("Running") THEN Ok("Running")
  ELSE IF raw = ServiceState_to_raw("ContinuePending") THEN Ok("ContinuePending")
  ELSE IF raw = ServiceState_to_raw("PausePending") THEN Ok("PausePending")
  ELSE IF raw = ServiceState_to_raw("Paused") THEN Ok("Paused")
  ELSE Err("InvalidServiceState", raw)

-----------------------------------------------------------------------------
(* ServiceExitCode, service.rs:266-310 *)

Win32(k) == [tag |-> "Win32", code |-> k]
ServiceSpecific(n) == [tag |-> "ServiceSpecific", code |-> n]

\* a mutation: the service-specific arm stores the code in the primary field
ServiceExitCode_copy_to_NoSentinel(self, raw_status) ==
  [raw_status EXCEPT !.dwWin32ExitCode = self.code,
                     !.dwServiceSpecificExitCode =
                        IF self.tag = "Win32" THEN 0 ELSE self.code]

\* copy_to writes the two exit-code fields of the raw status record
ServiceExitCode_copy_to(self, raw_status) ==
  IF self.tag = "Win32"
    THEN [raw_status EXCEPT !.dwWin32ExitCode = self.code,
                            !.dwServiceSpecificExitCode = 0]
    ELSE [raw_status EXCEPT !.dwWin32ExitCode = ERROR_SERVICE_SPECIFIC_ERROR,
                            !.dwServiceSpecificExitCode = self.code]

\* a mutation: the sentinel test left out
ServiceExitCode_from_NoSentinel(service_status_raw) ==
  Win32(service_status_raw.dwWin32ExitCode)

\* From<&SERVICE_STATUS>, service.rs:292-300
ServiceExitCode_from(service_status_raw) ==
  IF service_status_raw.dwWin32ExitCode = ERROR_SERVICE_SPECIFIC_ERROR
    THEN ServiceSpecific(service_status_raw.dwServiceSpecificExitCode)
    ELSE Win32(service_status_raw.dwWin32ExitCode)

\* From<&SERVICE_STATUS_PROCESS>, service.rs:302-310
ServiceExitCode_from_process(service_status_raw) ==
  IF service_status_raw.dwWin32ExitCode = ERROR_SERVICE_SPECIFIC_ERROR
    THEN ServiceSpecific(service_status_raw.dwServiceSpecificExitCode)
    ELSE Win32(service_status_raw.dwWin32ExitCode)

\* Default for ServiceExitCode, service.rs:286-290
ServiceExitCode_default == Win32(NO_ERROR)

-----------------------------------------------------------------------------
(* ServiceControlAccept (bitflags!), service.rs:312-338 *)

SERVICE_ACCEPT_STOP == 1
SERVICE_ACCEPT_PAUSE_CONTINUE == 2
SERVICE_ACCEPT_SHUTDOWN == 4
SERVICE_ACCEPT_PARAMCHANGE == 8
SERVICE_ACCEPT_NETBINDCHANGE == 16
SERVICE_ACCEPT_PRESHUTDOWN == 256

ServiceControlAcceptFlags ==
  { SERVICE_ACCEPT_NETBINDCHANGE, SERVICE_ACCEPT_PARAMCHANGE,
    SERVICE_ACCEPT_PAUSE_CONTINUE, SERVICE_ACCEPT_PRESHUTDOWN,
    SERVICE_ACCEPT_SHUTDOWN, SERVICE_ACCEPT_STOP }

\* the value of flag f in bits: f when the bit is set, 0 otherwise
BitOf(bits, f) == IF (bits \div f) % 2 = 1 THEN f ELSE 0

\* from_bits_truncate: the bits of no declared flag are dropped
ServiceControlAccept_from_bits_truncate(bits) ==
  BitOf(bits, SERVICE_ACCEPT_STOP) + BitOf(bits, SERVICE_ACCEPT_PAUSE_CONTINUE)
  + BitOf(bits, SERVICE_ACCEPT_SHUTDOWN) + BitOf(bits, SERVICE_ACCEPT_PARAMCHANGE)
  + BitOf(bits, SERVICE_ACCEPT_NETBINDCHANGE) + BitOf(bits, SERVICE_ACCEPT_PRESHUTDOWN)

-----------------------------------------------------------------------------
(* ServiceStatus and ServiceStatusExt, service.rs:341-441 *)

\* Duration::from_millis
Duration_from_millis(ms) == [secs |-> ms \div 1000, nanos |-> (ms % 1000) * 1000000]

\* ServiceStatus::from_raw_ex: the fields are decoded in the order written,
\* and the first `?` that fails returns its error
ServiceStatus_from_raw_ex(raw_status) ==
  LET st == ServiceType_from_raw(raw_status.dwServiceType)
      cs == ServiceState_from_raw(raw_status.dwCurrentState)
  IN  IF ~st.ok THEN st
      ELSE IF ~cs.ok THEN cs
      ELSE Ok([ service_type |-> st.val,
                current_state |-> cs.val,
                controls_accepted |->
                   ServiceControlAccept_from_bits_truncate(raw_status.dwControlsAccepted),
                exit_code |-> ServiceExitCode_from_process(raw_status),
                checkpoint |-> raw_status.dwCheckPoint,
                wait_hint |-> Duration_from_millis(raw_status.dwWaitHint) ])

\* ServiceStatusExt::from_raw
ServiceStatusExt_from_raw(raw_status) ==
  LET status == ServiceStatus_from_raw_ex(raw_status)
  IN  IF ~status.ok THEN status
      ELSE Ok([ service_flags |-> raw_status.dwServiceFlags,
                process_id |-> raw_status.dwProcessId,
                status |-> status.val ])

-----------------------------------------------------------------------------
(* Strings, pointers and Option *)

\* a string the platform owns: what it is and the service it belongs to
Text(kind, i) == [kind |-> kind, of |-> i]
\* format!("Error when retrieving info for service {}", last_os_error)
Diagnostic(err) == [kind |-> "Error when retrieving info for service", of |-> err]
IsDiagnostic(s) == s.kind = "Error when retrieving info for service"

NullPtr == [null |-> TRUE, text |-> Text("", 0)]
Ptr(t) == [null |-> FALSE, text |-> t]

None == {}
Some(x) == {x}

-----------------------------------------------------------------------------
(* The platform's records *)

\* SERVICE_STATUS_PROCESS of service i with the given type and state codes
StatusProcess(i, type, state) ==
  [ dwServiceType |-> type, dwCurrentState |-> state,
    dwControlsAccepted |-> SERVICE_ACCEPT_STOP,
    dwWin32ExitCode |-> NO_ERROR, dwServiceSpecificExitCode |-> 0,
    dwCheckPoint |-> 0, dwWaitHint |-> 0,
    dwProcessId |-> 1000 + i, dwServiceFlags |-> 0 ]

\* the (type, state) codes the platform may report: all recognized, an
\* unrecognized type, an unrecognized state
StatusCodeChoices ==
  { <<SERVICE_WIN32_OWN_PROCESS, SERVICE_RUNNING>>,
    <<SERVICE_WIN32_OWN_PROCESS + SERVICE_WIN32_SHARE_PROCESS, SERVICE_STOPPED>>,
    <<SERVICE_WIN32_OWN_PROCESS, SERVICE_PAUSED + 1>> }

\* ENUM_SERVICE_STATUS_PROCESSW of service i
EnumRecord(i, codes) ==
  [ lpServiceName |-> Ptr(Text("name", i)),
    lpDisplayName |-> Ptr(Text("display", i)),
    ServiceStatusProcess |-> StatusProcess(i, codes[1], codes[2]) ]

NoRecord == EnumRecord(0, <<0, 0>>)

\* what a read of buffer bytes the platform never wrote can yield
GarbageRecords == { EnumRecord(0, c) : c \in StatusCodeChoices }

\* the buffers of k records the platform can write
FilledBuffers(k) ==
  { [i \in 1 .. k |-> EnumRecord(i, f[i])] : f \in [1 .. k -> StatusCodeChoices] }

\* vec![0u8; n] reinterpreted as QUERY_SERVICE_CONFIGW (service_manager.rs:294-295)
ZeroedConfig ==
  [ dwServiceType |-> 0, dwStartType |-> 0, dwErrorControl |-> 0,
    lpBinaryPathName |-> NullPtr, lpLoadOrderGroup |-> NullPtr, dwTagId |-> 0,
    lpDependencies |-> NullPtr, lpServiceStartName |-> NullPtr,
    lpDisplayName |-> NullPtr ]

\* the (start type, error control, tag) the platform may report: recognized
\* codes with the tag equal to and different from the error control, an
\* unrecognized start type, an unrecognized error control
ConfigCodeChoices ==
  { <<SERVICE_AUTO_START, SERVICE_ERROR_NORMAL, 1>>,
    <<SERVICE_DEMAND_START, SERVICE_ERROR_SEVERE, 0>>,
    <<SERVICE_DISABLED + 1, SERVICE_ERROR_NORMAL, 0>>,
    <<SERVICE_AUTO_START, SERVICE_ERROR_CRITICAL + 1, 0>> }

\* QUERY_SERVICE_CONFIGW of service i as a successful query fills it
FilledConfig(i, codes) ==
  [ dwServiceType |-> SERVICE_WIN32_OWN_PROCESS,
    dwStartType |-> codes[1], dwErrorControl |-> codes[2],
    lpBinaryPathName |-> Ptr(Text("path", i)),
    lpLoadOrderGroup |-> Ptr(Text("group", i)), dwTagId |-> codes[3],
    lpDependencies |-> Ptr(Text("deps", i)),
    lpServiceStartName |-> Ptr(Text("account", i)),
    lpDisplayName |-> Ptr(Text("display", i)) ]

\* bytes the platform needs to return n services
BytesPerService == RecordSize + NameBytes
BytesFor(n) == n * BytesPerService

-----------------------------------------------------------------------------
(* EnumListServiceResult, service.rs:508-539 *)

EnumListServiceResult_from_raw(size) == [index |-> 0, size |-> size]

\* a mutation: the bound test off by one
EnumListServiceResult_next_Inclusive(self) ==
  IF self.index <= self.size
    THEN [some |-> TRUE, offset |-> self.index * RecordSize,
          self |-> [self EXCEPT !.index = @ + 1]]
    ELSE [some |-> FALSE, offset |-> 0, self |-> self]

\* a mutation: the stride taken to be the bytes the platform uses per service
EnumListServiceResult_next_WrongStride(self) ==
  IF self.index < self.size
    THEN [some |-> TRUE, offset |-> self.index * BytesPerService,
          self |-> [self EXCEPT !.index = @ + 1]]
    ELSE [some |-> FALSE, offset |-> 0, self |-> self]

\* Iterator::next: the byte offset read, if any, and the iterator afterwards
EnumListServiceResult_next(self) ==
  IF self.index < self.size
    THEN [some |-> TRUE, offset |-> self.index * RecordSize,
          self |-> [self EXCEPT !.index = @ + 1]]
    ELSE [some |-> FALSE, offset |-> 0, self |-> self]

\* the records a read of RecordSize bytes at `offset` of the buffer can yield
ReadAt(buffer, offset) ==
  LET slot == (offset \div RecordSize) + 1
  IN  IF offset % RecordSize = 0 /\ slot <= Len(buffer.records)
        THEN {buffer.records[slot]}
        ELSE GarbageRecords

-----------------------------------------------------------------------------
(* ServiceDetail, service.rs:541-554, as list_services builds it *)

\* a mutation: the degraded record keeps a start type
DegradedDetail_WithStartType(status, service_status_rec, os_error) ==
  [ status |-> status,
    name |-> service_status_rec.lpServiceName.text,
    display_name |-> service_status_rec.lpDisplayName.text,
    binary_path |-> Some(Diagnostic(os_error)),
    start_type |-> Some("BootStart"), error_control |-> None, tag_id |-> None,
    start_name |-> None, load_order_group |-> None, dependencies |-> None ]

\* the struct literal of service_manager.rs:316-328
DegradedDetail(status, service_status_rec, os_error) ==
  [ status |-> status,
    name |-> service_status_rec.lpServiceName.text,
    display_name |-> service_status_rec.lpDisplayName.text,
    binary_path |-> Some(Diagnostic(os_error)),
    start_type |-> None, error_control |-> None, tag_id |-> None,
    start_name |-> None, load_order_group |-> None, dependencies |-> None ]

\* the struct literal of service_manager.rs:299-311; tag_id is filled from
\* dwErrorControl (service_manager.rs:306)
FullDetail(status, service_status_rec, cfg, start_type, error_control) ==
  [ status |-> status,
    name |-> service_status_rec.lpServiceName.text,
    display_name |-> service_status_rec.lpDisplayName.text,
    binary_path |-> Some(cfg.lpBinaryPathName.text),
    start_type |-> Some(start_type), error_control |-> Some(error_control),
    tag_id |-> Some(cfg.dwErrorControl),
    start_name |-> Some(cfg.lpServiceStartName.text),
    load_order_group |-> Some(cfg.lpLoadOrderGroup.text),
    dependencies |-> Some(cfg.lpDependencies.text) ]

\* a mutation: an unrecognized error control is replaced by a default instead
\* of being returned as an error
BuildFullOutcome_DefaultErrorControl(service_status_rec, cfg) ==
  LET status == ServiceStatusExt_from_raw(service_status_rec.ServiceStatusProcess)
      start == ServiceStartType_from_raw(cfg.dwStartType)
      ec == ServiceErrorControl_from_raw(cfg.dwErrorControl)
  IN  IF ~status.ok THEN [kind |-> "Err", err |-> status]
      ELSE IF cfg.lpBinaryPathName.null THEN [kind |-> "abort"]
      ELSE IF ~start.ok THEN [kind |-> "Err", err |-> start]
      ELSE [kind |-> "push",
            detail |-> FullDetail(status.val, service_status_rec, cfg, start.val,
                                  IF ec.ok THEN ec.val ELSE "Normal")]

\* Evaluation of the struct literal of service_manager.rs:299-311, field by
\* field in the order written: a `?` on a decode error returns Err, and
\* WideCStr::from_ptr_str on a null pointer ends the process abnormally.
BuildFullOutcome(service_status_rec, cfg) ==
  LET status == ServiceStatusExt_from_raw(service_status_rec.ServiceStatusProcess)
      start == ServiceStartType_from_raw(cfg.dwStartType)
      ec == ServiceErrorControl_from_raw(cfg.dwErrorControl)
  IN  IF ~status.ok THEN [kind |-> "Err", err |-> status]
      ELSE IF service_status_rec.lpServiceName.null THEN [kind |-> "abort"]
      ELSE IF service_status_rec.lpDisplayName.null THEN [kind |-> "abort"]
      ELSE IF cfg.lpBinaryPathName.null THEN [kind |-> "abort"]
      ELSE IF ~start.ok THEN [kind |-> "Err", err |-> start]
      ELSE IF ~ec.ok THEN [kind |-> "Err", err |-> ec]
      ELSE IF cfg.lpServiceStartName.null THEN [kind |-> "abort"]
      ELSE IF cfg.lpLoadOrderGroup.null THEN [kind |-> "abort"]
      ELSE IF cfg.lpDependencies.null THEN [kind |-> "abort"]
      ELSE [kind |-> "push",
            detail |-> FullDetail(status.val, service_status_rec, cfg, start.val, ec.val)]

\* Evaluation of the struct literal of service_manager.rs:316-328
BuildDegradedOutcome(service_status_rec, os_error) ==
  LET status == ServiceStatusExt_from_raw(service_status_rec.ServiceStatusProcess)
  IN  IF ~status.ok THEN [kind |-> "Err", err |-> status]
      ELSE IF service_status_rec.lpServiceName.null THEN [kind |-> "abort"]
      ELSE IF service_status_rec.lpDisplayName.null THEN [kind |-> "abort"]
      ELSE [kind |-> "push",
            detail |-> DegradedDetail(status.val, service_status_rec, os_error)]


-----------------------------------------------------------------------------
(* SpecEnum: the from_raw and to_raw conversions applied to one raw code *)

Pending == [ok |-> FALSE, val |-> "", kind |-> "pending", raw |-> 0]
Enums == {"ServiceType", "ServiceStartType", "ServiceErrorControl",
          "ServiceState", "ServiceControl"}
StrictEnums == Enums \ {"ServiceType"}

FromRaw(enum, raw) ==
  CASE enum = "ServiceType" -> ServiceType_from_raw(raw)
    [] enum = "ServiceStartType" -> ServiceStartType_from_raw(raw)
    [] enum = "ServiceErrorControl" -> ServiceErrorControl_from_raw(raw)
    [] enum = "ServiceState" -> ServiceState_from_raw(raw)
    [] enum = "ServiceControl" -> ServiceControl_from_raw(raw)

EnumIdle ==
  /\ raw_value = 0
  /\ decoded = [e \in Enums |-> Pending]
  /\ reencoded = None

EnumInit ==
  /\ raw_value \in RawCodes
  /\ decoded = [e \in Enums |-> Pending]
  /\ reencoded = None

\* a caller decodes raw_value with one enum's from_raw
Decode(enum) ==
  /\ decoded[enum] = Pending
  /\ decoded' = [decoded EXCEPT ![enum] = FromRaw(enum, raw_value)]
  /\ UNCHANGED <<raw_value, reencoded>>

\* a caller encodes the decoded ServiceType again
Reencode ==
  /\ decoded["ServiceType"].ok
  /\ reencoded = None
  /\ reencoded' = Some(ServiceType_to_raw(decoded["ServiceType"].val))
  /\ UNCHANGED <<raw_value, decoded>>

-----------------------------------------------------------------------------
(* SpecExit: an exit code written into a raw status record and read back,  *)
(* and a process status record of the platform read                        *)

\* the exit-code fields of mem::zeroed::<SERVICE_STATUS>() (service.rs:400)
ZeroedStatus == [dwWin32ExitCode |-> 0, dwServiceSpecificExitCode |-> 0]
NotDecoded == [tag |-> "none", code |-> 0]

\* exit-code fields of the process status records the platform hands out
PlatformExitFields ==
  { [dwWin32ExitCode |-> k, dwServiceSpecificExitCode |-> n] :
      k \in {NO_ERROR, ERROR_ACCESS_DENIED, ERROR_SERVICE_SPECIFIC_ERROR},
      n \in {0, ERROR_ACCESS_DENIED, ERROR_SERVICE_SPECIFIC_ERROR} }

ExitIdle ==
  /\ exit_code = ServiceExitCode_default
  /\ raw_service_status = [written |-> FALSE, process |-> FALSE, status |-> ZeroedStatus]
  /\ exit_decoded = NotDecoded

\* either a ServiceExitCode about to be encoded into a zeroed SERVICE_STATUS,
\* or a SERVICE_STATUS_PROCESS the platform filled
ExitInit ==
  /\ exit_decoded = NotDecoded
  /\ \/ /\ exit_code \in {Win32(k) : k \in RawCodes}
                           \cup {ServiceSpecific(n) : n \in RawCodes}
        /\ raw_service_status =
             [written |-> FALSE, process |-> FALSE, status |-> ZeroedStatus]
     \/ /\ exit_code = ServiceExitCode_default
        /\ \E f \in PlatformExitFields :
             raw_service_status = [written |-> TRUE, process |-> TRUE, status |-> f]

\* ServiceStatus::to_raw's use of copy_to on a zeroed record (service.rs:400-405)
CopyTo ==
  /\ ~raw_service_status.written
  /\ raw_service_status' =
       [written |-> TRUE, process |-> FALSE,
        status |-> ServiceExitCode_copy_to(exit_code, raw_service_status.status)]
  /\ UNCHANGED <<exit_code, exit_decoded>>

\* ServiceStatus::from_raw's ServiceExitCode::from(&raw_status) (service.rs:422)
FromStatus ==
  /\ raw_service_status.written
  /\ ~raw_service_status.process
  /\ exit_decoded = NotDecoded
  /\ exit_decoded' = ServiceExitCode_from(raw_service_status.status)
  /\ UNCHANGED <<exit_code, raw_service_status>>

\* ServiceStatus::from_raw_ex's conversion of the process record (service.rs:435)
FromStatusProcess ==
  /\ raw_service_status.written
  /\ raw_service_status.process
  /\ exit_decoded = NotDecoded
  /\ exit_decoded' = ServiceExitCode_from_process(raw_service_status.status)
  /\ UNCHANGED <<exit_code, raw_service_status>>

-----------------------------------------------------------------------------
(* SpecStatus: ServiceStatus::to_raw and ServiceStatus::from_raw,          *)
(* service.rs:398-426                                                      *)

\* Duration::as_secs: the whole seconds of the duration
Duration_as_secs(d) == d.secs

\* `as u32` of a u64: the value itself for the values enumerated here, all of
\* which lie below 2^31
AsU32(x) == x

\* mem::zeroed::<winsvc::SERVICE_STATUS>()
ZeroedServiceStatus ==
  [ dwServiceType |-> 0, dwCurrentState |-> 0, dwControlsAccepted |-> 0,
    dwWin32ExitCode |-> 0, dwServiceSpecificExitCode |-> 0, dwCheckPoint |-> 0,
    dwWaitHint |-> 0 ]

\* ServiceStatus::to_raw, service.rs:399-413
ServiceStatus_to_raw(self) ==
  LET r1 == [ZeroedServiceStatus EXCEPT
               !.dwServiceType = ServiceType_to_raw(self.service_type),
               !.dwCurrentState = ServiceState_to_raw(self.current_state),
               !.dwControlsAccepted = self.controls_accepted]
      r2 == ServiceExitCode_copy_to(self.exit_code, r1)
  IN  [r2 EXCEPT !.dwCheckPoint = self.checkpoint,
                 !.dwWaitHint = AsU32(Duration_as_secs(self.wait_hint) * 1000)]

\* ServiceStatus::from_raw, service.rs:415-426
ServiceStatus_from_raw(raw_status) ==
  LET st == ServiceType_from_raw(raw_status.dwServiceType)
      cs == ServiceState_from_raw(raw_status.dwCurrentState)
  IN  IF ~st.ok THEN st
      ELSE IF ~cs.ok THEN cs
      ELSE Ok([ service_type |-> st.val,
                current_state |-> cs.val,
                controls_accepted |->
                   ServiceControlAccept_from_bits_truncate(raw_status.dwControlsAccepted),
                exit_code |-> ServiceExitCode_from(raw_status),
                checkpoint |-> raw_status.dwCheckPoint,
                wait_hint |-> Duration_from_millis(raw_status.dwWaitHint) ])

\* the ServiceStatus values enumerated: every wait hint of a whole number of
\* milliseconds up to MaxWaitMs
StatusChoices ==
  { [ service_type |-> t, current_state |-> "StartPending",
      controls_accepted |-> SERVICE_ACCEPT_STOP, exit_code |-> e,
      checkpoint |-> c, wait_hint |-> Duration_from_millis(ms) ] :
      t \in {"OwnProcess", "KernelDriver"},
      e \in {ServiceExitCode_default, ServiceSpecific(ERROR_ACCESS_DENIED)},
      c \in {0, 1},
      ms \in 0 .. MaxWaitMs }

StatusIdle ==
  /\ status_in = [ service_type |-> "OwnProcess", current_state |-> "Stopped",
                   controls_accepted |-> 0, exit_code |-> ServiceExitCode_default,
                   checkpoint |-> 0, wait_hint |-> Duration_from_millis(0) ]
  /\ status_raw = [written |-> FALSE, raw |-> ZeroedServiceStatus]
  /\ status_out = Pending

StatusInit ==
  /\ status_in \in StatusChoices
  /\ status_raw = [written |-> FALSE, raw |-> ZeroedServiceStatus]
  /\ status_out = Pending

\* a caller encodes the status
StatusToRaw ==
  /\ ~status_raw.written
  /\ status_raw' = [written |-> TRUE, raw |-> ServiceStatus_to_raw(status_in)]
  /\ UNCHANGED <<status_in, status_out>>

\* a caller decodes the record again
StatusFromRaw ==
  /\ status_raw.written
  /\ status_out.kind = "pending"
  /\ status_out' = ServiceStatus_from_raw(status_raw.raw)
  /\ UNCHANGED <<status_in, status_raw>>

-----------------------------------------------------------------------------
(* SpecCreate: ServiceManager::create_service, service_manager.rs:145-200  *)

\* Text handed to create_service is a sequence of characters, of which these
\* matter: the nul character, the space, the double quote and the backslash.
NUL == "NUL"
SPACE == " "
DQUOTE == "\""
BACKSLASH == "\\"

HasNul(s) == \E i \in DOMAIN s : s[i] = NUL

\* WideCString::from_str: the nul-terminated encoding, refused with a NulError
\* naming the position when the text holds a nul
WideCString_from_str(s) ==
  IF HasNul(s)
  THEN Err("NulError", CHOOSE i \in DOMAIN s :
                          s[i] = NUL /\ \A j \in 1 .. i - 1 : s[j] # NUL)
  ELSE Ok(s)

\* WideString::from_str: the encoding without terminator; it accepts every text
WideString_from_str(s) == s

\* chain_err(|| kind): an error is wrapped into the given kind
chain_err(r, kind) == IF r.ok THEN r ELSE Err(kind, r.raw)

\* to_wide, service_manager.rs:340-346
to_wide(s) ==
  IF s = None THEN Ok(None)
  ELSE LET wide == WideCString_from_str(CHOOSE x \in s : TRUE)
       IN  IF wide.ok THEN Ok(Some(wide.val)) ELSE wide

RECURSIVE EscapeQuotes(_)
\* every double quote of the token preceded by a backslash
EscapeQuotes(s) ==
  IF s = <<>> THEN <<>>
  ELSE (IF Head(s) = DQUOTE THEN <<BACKSLASH, DQUOTE>> ELSE <<Head(s)>>)
         \o EscapeQuotes(Tail(s))

\* shell_escape::escape: a token that holds a space or a double quote, or is
\* empty, is wrapped in double quotes with its quotes escaped, so that it reads
\* back as written; any other token is left as it is
shell_escape_escape(s) ==
  IF s = <<>> \/ \E i \in DOMAIN s : s[i] \in {SPACE, DQUOTE}
  THEN <<DQUOTE>> \o EscapeQuotes(s) \o <<DQUOTE>>
  ELSE s

\* escape_wide, service_manager.rs:348-352
escape_wide(s) ==
  LET escaped == shell_escape_escape(s)
      wide == WideCString_from_str(escaped)
  IN  IF wide.ok THEN Ok(wide.val) ELSE wide

RECURSIVE PushArguments(_, _)
\* the loop over launch_arguments, service_manager.rs:168-173
PushArguments(launch_command_buffer, launch_arguments) ==
  IF launch_arguments = <<>> THEN Ok(launch_command_buffer)
  ELSE LET wide == chain_err(escape_wide(Head(launch_arguments)),
                             "InvalidLaunchArgument")
       IN  IF ~wide.ok THEN wide
           ELSE PushArguments(launch_command_buffer \o <<SPACE>> \o wide.val,
                              Tail(launch_arguments))

\* every launch argument escaped, the kernel-driver path as well
LaunchCommandBuffer_AlwaysEscaped(info) ==
  LET executable_path ==
        chain_err(escape_wide(info.executable_path), "InvalidExecutablePath")
  IN  IF ~executable_path.ok THEN executable_path
      ELSE PushArguments(executable_path.val, info.launch_arguments)

\* the launch command buffer, service_manager.rs:159-173
LaunchCommandBuffer(info) ==
  LET executable_path ==
        chain_err(IF info.service_type = "KernelDriver"
                  THEN Ok(WideString_from_str(info.executable_path))
                  ELSE escape_wide(info.executable_path),
                  "InvalidExecutablePath")
  IN  IF ~executable_path.ok THEN executable_path
      ELSE PushArguments(executable_path.val, info.launch_arguments)

\* the four fields encoded first, in the code's order, service_manager.rs:150-157
EncodedFields(info) ==
  LET service_name == chain_err(WideCString_from_str(info.name), "InvalidServiceName")
      display_name == chain_err(WideCString_from_str(info.display_name),
                                "InvalidDisplayName")
      account_name == chain_err(to_wide(info.account_name), "InvalidAccountName")
      account_password == chain_err(to_wide(info.account_password),
                                    "InvalidAccountPassword")
  IN  IF ~service_name.ok THEN service_name
      ELSE IF ~display_name.ok THEN display_name
      ELSE IF ~account_name.ok THEN account_name
      ELSE IF ~account_password.ok THEN account_password
      ELSE Ok([ service_name |-> service_name.val,
                display_name |-> display_name.val,
                account_name |-> account_name.val,
                account_password |-> account_password.val ])

\* the texts enumerated for each field: without and with an embedded nul, for
\* the path also with a space, for an argument also with a space and a quote
NameChoices == { <<"s">>, <<"s", NUL, "s">> }
DisplayNameChoices == { <<"S">>, <<NUL, "S">> }
AccountChoices == { None, Some(<<"u">>), Some(<<"u", NUL>>) }
PathChoices == { <<"p">>, <<"p", SPACE, "p">>, <<"p", NUL, "p">> }
ArgumentChoices == { <<"a">>, <<"b", SPACE, DQUOTE>>, <<"c", NUL>> }

\* the argument lists of up to MaxArgs arguments
ArgumentLists ==
  UNION { [1 .. n -> ArgumentChoices] : n \in 0 .. MaxArgs }

ServiceInfoChoices ==
  { [ name |-> n, display_name |-> d, service_type |-> t,
      start_type |-> "OnDemand", error_control |-> "Normal",
      executable_path |-> p, launch_arguments |-> a,
      account_name |-> an, account_password |-> ap ] :
      n \in NameChoices, d \in DisplayNameChoices,
      t \in {"OwnProcess", "KernelDriver"}, p \in PathChoices,
      a \in ArgumentLists, an \in AccountChoices, ap \in AccountChoices }

NoWideFields ==
  [ service_name |-> <<>>, display_name |-> <<>>, account_name |-> None,
    account_password |-> None ]

\* create_service has not returned
NoCreateResult == [kind |-> "none", err |-> "", code |-> 0, handle |-> 0]

CreateIdle ==
  /\ service_info = [ name |-> <<>>, display_name |-> <<>>,
                      service_type |-> "OwnProcess", start_type |-> "OnDemand",
                      error_control |-> "Normal", executable_path |-> <<>>,
                      launch_arguments |-> <<>>, account_name |-> None,
                      account_password |-> None ]
  /\ create_pc = "idle"
  /\ wide_fields = NoWideFields
  /\ launch_command = <<>>
  /\ create_call = None
  /\ create_result = NoCreateResult

CreateInit ==
  /\ service_info \in ServiceInfoChoices
  /\ create_pc = "start"
  /\ wide_fields = NoWideFields
  /\ launch_command = <<>>
  /\ create_call = None
  /\ create_result = NoCreateResult

\* service_manager.rs:150-157: the name, display name, account name and password
\* are encoded; the first that cannot be makes create_service return its error
EncodeFields ==
  /\ create_pc = "start"
  /\ LET fields == EncodedFields(service_info)
     IN  IF fields.ok
         THEN /\ wide_fields' = fields.val
              /\ create_pc' = "encoded"
              /\ UNCHANGED create_result
         ELSE /\ create_result' = [NoCreateResult EXCEPT !.kind = "Err",
                                                           !.err = fields.kind]
              /\ create_pc' = "done"
              /\ UNCHANGED wide_fields
  /\ UNCHANGED <<service_info, launch_command, create_call>>

\* service_manager.rs:159-175: the launch command is put together and then
\* converted with WideCString::from_wide_str(..).unwrap(), which panics on a nul
BuildLaunchCommand ==
  /\ create_pc = "encoded"
  /\ LET launch_command_buffer == LaunchCommandBuffer(service_info)
     IN  IF ~launch_command_buffer.ok
         THEN /\ create_result' = [NoCreateResult EXCEPT
                                     !.kind = "Err", !.err = launch_command_buffer.kind]
              /\ create_pc' = "done"
              /\ UNCHANGED launch_command
         ELSE IF HasNul(launch_command_buffer.val)
         THEN /\ create_result' = [NoCreateResult EXCEPT !.kind = "abort",
                                                           !.err = "NulError"]
              /\ create_pc' = "done"
              /\ UNCHANGED launch_command
         ELSE /\ launch_command' = launch_command_buffer.val
              /\ create_pc' = "built"
              /\ UNCHANGED create_result
  /\ UNCHANGED <<service_info, wide_fields, create_call>>

\* service_manager.rs:177-199: CreateServiceW is issued; a null handle makes
\* create_service return the last OS error, any other is wrapped in a Service
CreateServiceW ==
  /\ create_pc = "built"
  /\ create_call' =
       Some([ service_name |-> wide_fields.service_name,
              display_name |-> wide_fields.display_name,
              service_type |-> ServiceType_to_raw(service_info.service_type),
              start_type |-> ServiceStartType_to_raw(service_info.start_type),
              error_control |-> ServiceErrorControl_to_raw(service_info.error_control),
              launch_command |-> launch_command,
              account_name |-> wide_fields.account_name,
              account_password |-> wide_fields.account_password ])
  /\ \/ create_result' = [NoCreateResult EXCEPT !.kind = "Ok", !.handle = 1]
     \/ create_result' = [NoCreateResult EXCEPT !.kind = "Err", !.err = "Io",
                                                !.code = ERROR_ACCESS_DENIED]
  /\ create_pc' = "done"
  /\ UNCHANGED <<service_info, wide_fields, launch_command>>

-----------------------------------------------------------------------------
(* SpecService: Service, service.rs:449-504                                *)

\* one platform call on a service handle: the function, the handle, the control
\* code passed (0: none) and whether the call reported success
ServiceCall(fn, handle, control, ok) ==
  [fn |-> fn, handle |-> handle, control |-> control, ok |-> ok]

\* no Service operation has returned
NoServiceResult == [kind |-> "none", err |-> "", code |-> 0, status |-> None]

\* the Result<ServiceStatus> of an operation whose platform call succeeded
StatusResult(raw_status) ==
  LET r == ServiceStatus_from_raw(raw_status)
  IN  IF r.ok THEN [NoServiceResult EXCEPT !.kind = "Ok", !.status = Some(r.val)]
      ELSE [NoServiceResult EXCEPT !.kind = "Err", !.err = r.kind, !.code = r.raw]

\* Err(io::Error::last_os_error())
OsErrorResult(code) == [NoServiceResult EXCEPT !.kind = "Err", !.err = "Io", !.code = code]

\* the SERVICE_STATUS records the platform writes: a running and a stopped
\* service, and one with a state code no ServiceState has
PlatformStatusChoices ==
  { [ZeroedServiceStatus EXCEPT !.dwServiceType = SERVICE_WIN32_OWN_PROCESS,
                                !.dwCurrentState = st] :
      st \in {SERVICE_RUNNING, SERVICE_STOPPED, 0} }

\* Drop for ScHandle: the handle is closed with CloseServiceHandle
ScHandle_drop(log, handle) == Append(log, ServiceCall("CloseServiceHandle", handle, 0, TRUE))

ServiceIdle ==
  /\ service = [service_handle |-> 0, owned |-> FALSE]
  /\ svc_calls = <<>>
  /\ svc_result = NoServiceResult

\* Service::new, service.rs:454-456
ServiceInit ==
  /\ service = [service_handle |-> 1, owned |-> TRUE]
  /\ svc_calls = <<>>
  /\ svc_result = NoServiceResult

\* Service::query_status(&self), service.rs:464-474
QueryStatus ==
  /\ service.owned
  /\ Len(svc_calls) < MaxServiceCalls
  /\ \/ \E raw_status \in PlatformStatusChoices :
          /\ svc_calls' = Append(svc_calls,
               ServiceCall("QueryServiceStatus", service.service_handle, 0, TRUE))
          /\ svc_result' = StatusResult(raw_status)
     \/ /\ svc_calls' = Append(svc_calls,
             ServiceCall("QueryServiceStatus", service.service_handle, 0, FALSE))
        /\ svc_result' = OsErrorResult(ERROR_ACCESS_DENIED)
  /\ UNCHANGED service

\* Service::send_control_command(&self, command), service.rs:487-502
SendControlCommand(command) ==
  /\ service.owned
  /\ Len(svc_calls) < MaxServiceCalls
  /\ \/ \E raw_status \in PlatformStatusChoices :
          /\ svc_calls' = Append(svc_calls,
               ServiceCall("ControlService", service.service_handle,
                           ServiceControl_to_raw(command), TRUE))
          /\ svc_result' = StatusResult(raw_status)
     \/ /\ svc_calls' = Append(svc_calls,
             ServiceCall("ControlService", service.service_handle,
                         ServiceControl_to_raw(command), FALSE))
        /\ svc_result' = OsErrorResult(ERROR_ACCESS_DENIED)
  /\ UNCHANGED service

\* Service::stop(&self), service.rs:459-461
Stop == SendControlCommand("Stop")

\* a delete that borrows the Service: the value stays with the caller and its
\* handle stays open
Delete_Borrowing ==
  /\ service.owned
  /\ Len(svc_calls) < MaxServiceCalls
  /\ \/ /\ svc_calls' = Append(svc_calls,
             ServiceCall("DeleteService", service.service_handle, 0, TRUE))
        /\ svc_result' = [NoServiceResult EXCEPT !.kind = "Ok"]
     \/ /\ svc_calls' = Append(svc_calls,
             ServiceCall("DeleteService", service.service_handle, 0, FALSE))
        /\ svc_result' = OsErrorResult(ERROR_ACCESS_DENIED)
  /\ UNCHANGED service

\* Service::delete(self), service.rs:476-484: the Service is moved into the
\* call and dropped when it returns, whatever DeleteService reported
Delete ==
  /\ service.owned
  /\ \/ /\ svc_calls' = ScHandle_drop(
             Append(svc_calls,
                    ServiceCall("DeleteService", service.service_handle, 0, TRUE)),
             service.service_handle)
        /\ svc_result' = [NoServiceResult EXCEPT !.kind = "Ok"]
     \/ /\ svc_calls' = ScHandle_drop(
             Append(svc_calls,
                    ServiceCall("DeleteService", service.service_handle, 0, FALSE)),
             service.service_handle)
        /\ svc_result' = OsErrorResult(ERROR_ACCESS_DENIED)
  /\ service' = [service EXCEPT !.owned = FALSE]

\* the owner lets the Service go out of scope without deleting it
DropService ==
  /\ service.owned
  /\ svc_calls' = ScHandle_drop(svc_calls, service.service_handle)
  /\ service' = [service EXCEPT !.owned = FALSE]
  /\ UNCHANGED svc_result

-----------------------------------------------------------------------------
(* Spec: ServiceManager::list_services, service_manager.rs:243-337 *)

NoResult == [kind |-> "none", list |-> <<>>, err |-> Pending]

\* one platform call: the function and call site, the record it was issued for (0: none),
\* the handle passed or returned, whether it reported success, the last-error
\* value it left, the records or bytes it reported, the configuration it wrote
Call(fn, rec, handle, ok, err, n, cfg) ==
  [fn |-> fn, rec |-> rec, handle |-> handle, ok |-> ok, err |-> err, n |-> n,
   cfg |-> cfg]

ListIdle ==
  /\ pc = "idle"
  /\ last_error = NO_ERROR
  /\ pcb_bytes_needed = 0
  /\ lp_services_returned = 0
  /\ lp_services = [len |-> 0, records |-> <<>>]
  /\ enum_result = EnumListServiceResult_from_raw(0)
  /\ service_status = NoRecord
  /\ handle_service = 0
  /\ cfg_bytes_needed = 0
  /\ query_service_config = ZeroedConfig
  /\ service_list = <<>>
  /\ result = NoResult
  /\ open_handles = {}
  /\ calls = <<>>
  /\ reads = {}

\* the state at entry; the thread's last-error value is whatever an earlier
\* call left
ListInit ==
  /\ pc = "probe"
  /\ last_error \in {NO_ERROR, ERROR_ACCESS_DENIED, ERROR_MORE_DATA}
  /\ pcb_bytes_needed = 0
  /\ lp_services_returned = 0
  /\ lp_services = [len |-> 0, records |-> <<>>]
  /\ enum_result = EnumListServiceResult_from_raw(0)
  /\ service_status = NoRecord
  /\ handle_service = 0
  /\ cfg_bytes_needed = 0
  /\ query_service_config = ZeroedConfig
  /\ service_list = <<>>
  /\ result = NoResult
  /\ open_handles = {}
  /\ calls = <<>>
  /\ reads = {}

\* service_manager.rs:266: only the more-data signal leads to the fill call
AfterProbe(signal) == IF signal = ERROR_MORE_DATA THEN "fill" ELSE "return"

\* service_manager.rs:250-266: the sizing probe with a null buffer. The
\* platform reports more data and the bytes needed, or fails for another
\* reason, or succeeds because there is nothing to return; the return value
\* is dropped and the last-error value is read whatever it was.
EnumProbe ==
  /\ pc = "probe"
  /\ \/ \E n \in 0 .. MaxServices :
          /\ pcb_bytes_needed' = BytesFor(n)
          /\ last_error' = ERROR_MORE_DATA
          /\ calls' = Append(calls, Call("EnumServicesStatusExW(probe)", 0, 0, FALSE,
                                         ERROR_MORE_DATA, BytesFor(n), ZeroedConfig))
     \/ /\ pcb_bytes_needed' = 0
        /\ last_error' = ERROR_ACCESS_DENIED
        /\ calls' = Append(calls, Call("EnumServicesStatusExW(probe)", 0, 0, FALSE,
                                       ERROR_ACCESS_DENIED, 0, ZeroedConfig))
     \/ /\ pcb_bytes_needed' = 0
        /\ last_error' = last_error
        /\ calls' = Append(calls, Call("EnumServicesStatusExW(probe)", 0, 0, TRUE,
                                       NO_ERROR, 0, ZeroedConfig))
  /\ lp_services_returned' = 0
  /\ pc' = AfterProbe(last_error')
  /\ UNCHANGED <<lp_services, enum_result, service_status, handle_service,
                 cfg_bytes_needed, query_service_config, service_list, result,
                 open_handles, reads>>
  /\ UNCHANGED <<enumVars, exitVars, statusVars, createVars, serviceVars>>

\* service_manager.rs:267-283: a buffer of pcb_bytes_needed bytes is allocated
\* and the call repeated; its return value is dropped. The platform writes k
\* records that fit the buffer and reports success or more data, or fails
\* without writing any. The iterator is built over the count reported.
EnumFill ==
  /\ pc = "fill"
  /\ \/ \E k \in 0 .. MaxServices, ok \in BOOLEAN :
          /\ BytesFor(k) <= pcb_bytes_needed
          /\ \E recs \in FilledBuffers(k) :
                lp_services' = [len |-> pcb_bytes_needed, records |-> recs]
          /\ lp_services_returned' = k
          /\ pcb_bytes_needed' = IF ok THEN 0 ELSE BytesPerService
          /\ last_error' = IF ok THEN last_error ELSE ERROR_MORE_DATA
          /\ calls' = Append(calls, Call("EnumServicesStatusExW(fill)", 0, 0, ok,
                                         IF ok THEN NO_ERROR ELSE ERROR_MORE_DATA,
                                         k, ZeroedConfig))
     \/ /\ lp_services' = [len |-> pcb_bytes_needed, records |-> <<>>]
        /\ lp_services_returned' = 0
        /\ pcb_bytes_needed' = 0
        /\ last_error' = ERROR_ACCESS_DENIED
        /\ calls' = Append(calls, Call("EnumServicesStatusExW(fill)", 0, 0, FALSE,
                                       ERROR_ACCESS_DENIED, 0, ZeroedConfig))
  /\ enum_result' = EnumListServiceResult_from_raw(lp_services_returned')
  /\ pc' = "next"
  /\ UNCHANGED <<service_status, handle_service, cfg_bytes_needed,
                 query_service_config, service_list, result, open_handles, reads>>
  /\ UNCHANGED <<enumVars, exitVars, statusVars, createVars, serviceVars>>

\* service_manager.rs:284: the for loop asks the iterator for the next record
IterNext ==
  /\ pc = "next"
  /\ LET step == EnumListServiceResult_next(enum_result)
     IN  /\ enum_result' = step.self
         /\ IF step.some
              THEN /\ service_status' \in ReadAt(lp_services, step.offset)
                   /\ reads' = reads \cup {step.offset}
                   /\ pc' = "open"
              ELSE /\ pc' = "return"
                   /\ UNCHANGED <<service_status, reads>>
  /\ UNCHANGED <<last_error, pcb_bytes_needed, lp_services_returned, lp_services,
                 handle_service, cfg_bytes_needed, query_service_config,
                 service_list, result, open_handles, calls>>
  /\ UNCHANGED <<enumVars, exitVars, statusVars, createVars, serviceVars>>

\* service_manager.rs:286-288: OpenServiceW; a null handle on failure. The
\* handle of the record at index i is i.
OpenService ==
  /\ pc = "open"
  /\ \/ /\ handle_service' = enum_result.index
        /\ open_handles' = open_handles \cup {enum_result.index}
        /\ last_error' = last_error
        /\ calls' = Append(calls, Call("OpenServiceW", enum_result.index,
                                       enum_result.index, TRUE, NO_ERROR, 0,
                                       ZeroedConfig))
     \/ /\ handle_service' = 0
        /\ open_handles' = open_handles
        /\ last_error' = ERROR_ACCESS_DENIED
        /\ calls' = Append(calls, Call("OpenServiceW", enum_result.index, 0, FALSE,
                                       ERROR_ACCESS_DENIED, 0, ZeroedConfig))
  /\ pc' = "cfg_probe"
  /\ UNCHANGED <<pcb_bytes_needed, lp_services_returned, lp_services, enum_result,
                 service_status, cfg_bytes_needed, query_service_config,
                 service_list, result, reads>>
  /\ UNCHANGED <<enumVars, exitVars, statusVars, createVars, serviceVars>>

\* service_manager.rs:290-293: the configuration sizing probe. On a handle
\* that is not open it fails and leaves the size 0; on an open handle it
\* reports the size with the insufficient-buffer signal, or fails otherwise.
QueryConfigProbe ==
  /\ pc = "cfg_probe"
  /\ IF handle_service \notin open_handles
       THEN /\ cfg_bytes_needed' = 0
            /\ last_error' = ERROR_INVALID_HANDLE
            /\ calls' = Append(calls, Call("QueryServiceConfigW(probe)", enum_result.index,
                                           handle_service, FALSE,
                                           ERROR_INVALID_HANDLE, 0, ZeroedConfig))
       ELSE \/ /\ cfg_bytes_needed' = BytesPerService
               /\ last_error' = ERROR_INSUFFICIENT_BUFFER
               /\ calls' = Append(calls, Call("QueryServiceConfigW(probe)", enum_result.index,
                                              handle_service, FALSE,
                                              ERROR_INSUFFICIENT_BUFFER,
                                              BytesPerService, ZeroedConfig))
            \/ /\ cfg_bytes_needed' = 0
               /\ last_error' = ERROR_ACCESS_DENIED
               /\ calls' = Append(calls, Call("QueryServiceConfigW(probe)", enum_result.index,
                                              handle_service, FALSE,
                                              ERROR_ACCESS_DENIED, 0, ZeroedConfig))
  /\ pc' = IF cfg_bytes_needed' > 0 THEN "cfg_fill" ELSE "degraded"
  /\ UNCHANGED <<pcb_bytes_needed, lp_services_returned, lp_services, enum_result,
                 service_status, handle_service, query_service_config,
                 service_list, result, open_handles, reads>>
  /\ UNCHANGED <<enumVars, exitVars, statusVars, createVars, serviceVars>>

\* service_manager.rs:294-297: a zeroed buffer is allocated and the query
\* repeated; its return value is dropped. On failure the buffer stays zeroed.
QueryConfigFill ==
  /\ pc = "cfg_fill"
  /\ \/ \E codes \in ConfigCodeChoices :
          /\ query_service_config' = FilledConfig(enum_result.index, codes)
          /\ last_error' = last_error
          /\ calls' = Append(calls, Call("QueryServiceConfigW(fill)", enum_result.index,
                                         handle_service, TRUE, NO_ERROR,
                                         cfg_bytes_needed, query_service_config'))
     \/ /\ query_service_config' = ZeroedConfig
        /\ last_error' = ERROR_INSUFFICIENT_BUFFER
        /\ calls' = Append(calls, Call("QueryServiceConfigW(fill)", enum_result.index,
                                       handle_service, FALSE,
                                       ERROR_INSUFFICIENT_BUFFER, cfg_bytes_needed,
                                       ZeroedConfig))
  /\ pc' = "full"
  /\ UNCHANGED <<pcb_bytes_needed, lp_services_returned, lp_services, enum_result,
                 service_status, handle_service, cfg_bytes_needed, service_list,
                 result, open_handles, reads>>
  /\ UNCHANGED <<enumVars, exitVars, statusVars, createVars, serviceVars>>

\* what the evaluation of a struct literal does to list_services
Built(outcome) ==
  /\ CASE outcome.kind = "push" ->
            /\ service_list' = Append(service_list, outcome.detail)
            /\ pc' = "close"
            /\ UNCHANGED result
       [] outcome.kind = "Err" ->
            /\ result' = [kind |-> "Err", list |-> <<>>, err |-> outcome.err]
            /\ pc' = "done"
            /\ UNCHANGED service_list
       [] outcome.kind = "abort" ->
            /\ result' = [kind |-> "abort", list |-> <<>>, err |-> Pending]
            /\ pc' = "done"
            /\ UNCHANGED service_list
  /\ UNCHANGED <<last_error, pcb_bytes_needed, lp_services_returned, lp_services,
                 enum_result, service_status, handle_service, cfg_bytes_needed,
                 query_service_config, open_handles, calls, reads>>
  /\ UNCHANGED <<enumVars, exitVars, statusVars, createVars, serviceVars>>

\* service_manager.rs:299-313
BuildFull ==
  /\ pc = "full"
  /\ Built(BuildFullOutcome(service_status, query_service_config))

\* service_manager.rs:316-330
BuildDegraded ==
  /\ pc = "degraded"
  /\ Built(BuildDegradedOutcome(service_status, last_error))

\* a mutation: the handle is not closed at the end of the loop body
CloseHandle_Missing ==
  /\ pc = "close"
  /\ pc' = "next"
  /\ UNCHANGED <<last_error, pcb_bytes_needed, lp_services_returned, lp_services,
                 enum_result, service_status, handle_service, cfg_bytes_needed,
                 query_service_config, service_list, result, open_handles, calls,
                 reads>>
  /\ UNCHANGED <<enumVars, exitVars, statusVars, createVars, serviceVars>>

\* service_manager.rs:332: CloseServiceHandle; it fails on a handle that is
\* not open
CloseHandle ==
  /\ pc = "close"
  /\ IF handle_service \in open_handles
       THEN /\ open_handles' = open_handles \ {handle_service}
            /\ last_error' = last_error
            /\ calls' = Append(calls, Call("CloseServiceHandle", enum_result.index,
                                           handle_service, TRUE, NO_ERROR, 0,
                                           ZeroedConfig))
       ELSE /\ open_handles' = open_handles
            /\ last_error' = ERROR_INVALID_HANDLE
            /\ calls' = Append(calls, Call("CloseServiceHandle", enum_result.index,
                                           handle_service, FALSE,
                                           ERROR_INVALID_HANDLE, 0, ZeroedConfig))
  /\ pc' = "next"
  /\ UNCHANGED <<pcb_bytes_needed, lp_services_returned, lp_services, enum_result,
                 service_status, handle_service, cfg_bytes_needed,
                 query_service_config, service_list, result, reads>>
  /\ UNCHANGED <<enumVars, exitVars, statusVars, createVars, serviceVars>>

\* service_manager.rs:336
Return ==
  /\ pc = "return"
  /\ result' = [kind |-> "Ok", list |-> service_list, err |-> Pending]
  /\ pc' = "done"
  /\ UNCHANGED <<last_error, pcb_bytes_needed, lp_services_returned, lp_services,
                 enum_result, service_status, handle_service, cfg_bytes_needed,
                 query_service_config, service_list, open_handles, calls, reads>>
  /\ UNCHANGED <<enumVars, exitVars, statusVars, createVars, serviceVars>>

-----------------------------------------------------------------------------
(* The specifications *)

Init == ListInit /\ EnumIdle /\ ExitIdle /\ StatusIdle /\ CreateIdle /\ ServiceIdle

Next ==
  \/ EnumProbe
  \/ EnumFill
  \/ IterNext
  \/ OpenService
  \/ QueryConfigProbe
  \/ QueryConfigFill
  \/ BuildFull
  \/ BuildDegraded
  \/ CloseHandle
  \/ Return

Spec == Init /\ [][Next]_vars

InitEnum == EnumInit /\ ExitIdle /\ StatusIdle /\ CreateIdle /\ ListIdle /\ ServiceIdle

NextEnum ==
  \/ \E enum \in Enums : Decode(enum) /\ UNCHANGED <<exitVars, statusVars, createVars, listVars, serviceVars>>
  \/ Reencode /\ UNCHANGED <<exitVars, statusVars, createVars, listVars, serviceVars>>

SpecEnum == InitEnum /\ [][NextEnum]_vars

InitExit == ExitInit /\ EnumIdle /\ StatusIdle /\ CreateIdle /\ ListIdle /\ ServiceIdle

NextExit ==
  \/ CopyTo /\ UNCHANGED <<enumVars, statusVars, createVars, listVars, serviceVars>>
  \/ FromStatus /\ UNCHANGED <<enumVars, statusVars, createVars, listVars, serviceVars>>
  \/ FromStatusProcess /\ UNCHANGED <<enumVars, statusVars, createVars, listVars, serviceVars>>

SpecExit == InitExit /\ [][NextExit]_vars

InitStatus == StatusInit /\ EnumIdle /\ ExitIdle /\ CreateIdle /\ ListIdle /\ ServiceIdle

NextStatus ==
  \/ StatusToRaw /\ UNCHANGED <<enumVars, exitVars, createVars, listVars, serviceVars>>
  \/ StatusFromRaw /\ UNCHANGED <<enumVars, exitVars, createVars, listVars, serviceVars>>

SpecStatus == InitStatus /\ [][NextStatus]_vars

InitCreate == CreateInit /\ EnumIdle /\ ExitIdle /\ StatusIdle /\ ListIdle /\ ServiceIdle

NextCreate ==
  \/ EncodeFields /\ UNCHANGED <<enumVars, exitVars, statusVars, listVars, serviceVars>>
  \/ BuildLaunchCommand /\ UNCHANGED <<enumVars, exitVars, statusVars, listVars, serviceVars>>
  \/ CreateServiceW /\ UNCHANGED <<enumVars, exitVars, statusVars, listVars, serviceVars>>

SpecCreate == InitCreate /\ [][NextCreate]_vars

InitService ==
  ServiceInit /\ EnumIdle /\ ExitIdle /\ StatusIdle /\ CreateIdle /\ ListIdle

NextService ==
  \/ QueryStatus /\ UNCHANGED <<enumVars, exitVars, statusVars, createVars, listVars>>
  \/ Stop /\ UNCHANGED <<enumVars, exitVars, statusVars, createVars, listVars>>
  \/ Delete /\ UNCHANGED <<enumVars, exitVars, statusVars, createVars, listVars>>
  \/ DropService /\ UNCHANGED <<enumVars, exitVars, statusVars, createVars, listVars>>

SpecService == InitService /\ [][NextService]_vars

-----------------------------------------------------------------------------
(* Properties of the domain enums and the exit code *)

KnownCodes(enum) ==
  CASE enum = "ServiceType" -> KnownServiceTypeCodes
    [] enum = "ServiceStartType" -> KnownServiceStartTypeCodes
    [] enum = "ServiceErrorControl" -> KnownServiceErrorControlCodes
    [] enum = "ServiceState" -> KnownServiceStateCodes
    [] enum = "ServiceControl" -> KnownServiceControlCodes

\* C7: a raw code outside the known set decodes to Ok(InvalidServiceType) with
\* ServiceType::from_raw and to an error with the from_raw of ServiceStartType,
\* ServiceErrorControl and ServiceState; a code inside an enum's known set
\* decodes to Ok with that enum's from_raw.
C7_LenientTypeStrictOthers ==
  /\ decoded["ServiceType"] # Pending =>
       /\ decoded["ServiceType"].ok
       /\ raw_value \notin KnownServiceTypeCodes =>
            decoded["ServiceType"].val = "InvalidServiceType"
  /\ \A e \in {"ServiceStartType", "ServiceErrorControl", "ServiceState"} :
       decoded[e] # Pending => (decoded[e].ok <=> raw_value \in KnownCodes(e))

\* C7 witness: a code no enum knows has been decoded by the four functions
C7_Witness ==
  /\ \A e \in Enums \ {"ServiceControl"} :
       raw_value \notin KnownCodes(e) /\ decoded[e] # Pending
  /\ decoded["ServiceType"] = Ok("InvalidServiceType")
  /\ ~decoded["ServiceState"].ok

\* the ErrorKind that names an enum
OwnErrorKind(enum) ==
  CASE enum = "ServiceStartType" -> "InvalidServiceStartType"
    [] enum = "ServiceErrorControl" -> "InvalidServiceErrorControl"
    [] enum = "ServiceState" -> "InvalidServiceState"
    [] enum = "ServiceControl" -> "InvalidServiceControl"

\* C8: the error a strict enum's from_raw returns for an unrecognized code
\* names that enum and carries the code, so the errors of two different
\* strict enums never coincide.
C8_StrictErrorsNameTheirEnum ==
  /\ \A e \in StrictEnums :
       (decoded[e] # Pending /\ ~decoded[e].ok) =>
          /\ decoded[e].kind = OwnErrorKind(e)
          /\ decoded[e].raw = raw_value
  /\ \A e1, e2 \in StrictEnums :
       (e1 # e2 /\ decoded[e1] # Pending /\ decoded[e2] # Pending
          /\ ~decoded[e1].ok /\ ~decoded[e2].ok) => decoded[e1].kind # decoded[e2].kind

\* C9: for a raw code of the known ServiceType set, from_raw succeeds and
\* to_raw of its result is the code again.
C9_ServiceTypeRoundTrip ==
  raw_value \in KnownServiceTypeCodes =>
    /\ decoded["ServiceType"] # Pending => decoded["ServiceType"].ok
    /\ reencoded # None => reencoded = Some(raw_value)

\* C9 witness: a known code has made the round trip
C9_Witness ==
  /\ raw_value = SERVICE_KERNEL_DRIVER
  /\ decoded["ServiceType"] = Ok("KernelDriver")
  /\ reencoded = Some(SERVICE_KERNEL_DRIVER)

\* C10: ServiceSpecific(n) written by copy_to and read back is
\* ServiceSpecific(n), for every n; Win32(k) written and read back is
\* Win32(k), for every k other than ERROR_SERVICE_SPECIFIC_ERROR.
C10_ExitCodeRoundTrip ==
  (exit_decoded # NotDecoded /\ ~raw_service_status.process) =>
     /\ exit_code.tag = "ServiceSpecific" => exit_decoded = exit_code
     /\ (exit_code.tag = "Win32" /\ exit_code.code # ERROR_SERVICE_SPECIFIC_ERROR) =>
          exit_decoded = exit_code

\* C10 witness: a service-specific code equal to the sentinel has made the
\* round trip
C10_Witness ==
  /\ exit_code = ServiceSpecific(ERROR_SERVICE_SPECIFIC_ERROR)
  /\ raw_service_status.written
  /\ exit_decoded = ServiceSpecific(ERROR_SERVICE_SPECIFIC_ERROR)

-----------------------------------------------------------------------------
(* Properties of list_services *)

CallsOf(fn) == { j \in DOMAIN calls : calls[j].fn = fn }

\* the sizing probe has been made and ended with the more-data signal
ProbeSaidMoreData ==
  /\ Len(calls) >= 1
  /\ ~calls[1].ok
  /\ calls[1].err = ERROR_MORE_DATA

\* the sizing probe has been made and failed with a true platform error
ProbeFailed ==
  /\ Len(calls) >= 1
  /\ ~calls[1].ok
  /\ calls[1].err # ERROR_MORE_DATA

\* the fill call has been made and reported failure
FillFailed == \E j \in CallsOf("EnumServicesStatusExW(fill)") : ~calls[j].ok

\* the fill call has been made and reported success
FillSucceeded == \E j \in CallsOf("EnumServicesStatusExW(fill)") : calls[j].ok

\* the secondary query of record i failed: its open call, its configuration
\* sizing probe or its configuration fill call
OpenFailed(i) == \E j \in CallsOf("OpenServiceW") : calls[j].rec = i /\ ~calls[j].ok
ConfigProbeFailed(i) ==
  \E j \in CallsOf("QueryServiceConfigW(probe)") :
     calls[j].rec = i /\ calls[j].err # ERROR_INSUFFICIENT_BUFFER
ConfigFillFailed(i) ==
  \E j \in CallsOf("QueryServiceConfigW(fill)") : calls[j].rec = i /\ ~calls[j].ok
SecondaryFailed(i) == OpenFailed(i) \/ ConfigProbeFailed(i) \/ ConfigFillFailed(i)

\* every code the platform reported is one the strict decoders recognize
CodesRecognized ==
  /\ \A i \in DOMAIN lp_services.records :
       lp_services.records[i].ServiceStatusProcess.dwCurrentState
          \in KnownServiceStateCodes
  /\ \A j \in CallsOf("QueryServiceConfigW(fill)") :
       calls[j].ok =>
         /\ calls[j].cfg.dwStartType \in KnownServiceStartTypeCodes
         /\ calls[j].cfg.dwErrorControl \in KnownServiceErrorControlCodes

ConfigFields ==
  {"start_type", "error_control", "load_order_group", "tag_id", "dependencies",
   "start_name"}
AllPresent(d) == \A f \in ConfigFields : d[f] # None
AllAbsent(d) == \A f \in ConfigFields : d[f] = None
HasDiagnostic(d) == \E t \in d.binary_path : IsDiagnostic(t)

\* C1: when the enumeration probe and fill calls succeed for N services and
\* the secondary query of exactly one of them fails, list_services returns N
\* records, that service's record without configuration fields and with a
\* diagnostic binary_path, the other N-1 with every configuration field.
C1_OneFailureOneDegraded ==
  ( /\ pc = "done"
    /\ ProbeSaidMoreData
    /\ FillSucceeded
    /\ CodesRecognized
    /\ Cardinality({ i \in 1 .. lp_services_returned : SecondaryFailed(i) }) = 1 )
  =>
  ( /\ result.kind = "Ok"
    /\ Len(result.list) = lp_services_returned
    /\ \A i \in 1 .. lp_services_returned :
         IF SecondaryFailed(i)
           THEN AllAbsent(result.list[i]) /\ HasDiagnostic(result.list[i])
           ELSE AllPresent(result.list[i]) )

\* C2: a sizing probe that fails with a true platform error makes
\* list_services return an error; an empty list after a probe without the
\* more-data signal is returned only when the probe had no data to report.
C2_ProbeErrorIsNotEmptyList ==
  pc = "done" =>
    /\ ProbeFailed => result.kind = "Err"
    /\ (~ProbeSaidMoreData /\ result.kind = "Ok") => calls[1].ok

OpenedHandles == { calls[j].handle : j \in { k \in CallsOf("OpenServiceW") : calls[k].ok } }
ReleaseCount(h) ==
  Cardinality({ j \in CallsOf("CloseServiceHandle") : calls[j].handle = h /\ calls[j].ok })

\* C3: when list_services has returned, with a list or with an error, every
\* service handle it opened has been released exactly once.
C3_HandlesReleasedOnEveryReturn ==
  result.kind \in {"Ok", "Err"} => \A h \in OpenedHandles : ReleaseCount(h) = 1

\* C4: when the enumeration fill call reports failure, list_services returns
\* an error, has made the fill call once and has read no record of the buffer.
C4_FillFailureSurfaced ==
  (pc = "done" /\ FillFailed) =>
     /\ result.kind = "Err"
     /\ Cardinality(CallsOf("EnumServicesStatusExW(fill)")) = 1
     /\ reads = {}

\* the sizing probe has been made and reported zero bytes needed
ProbeSaidZeroBytes ==
  /\ Len(calls) >= 1
  /\ calls[1].n = 0

\* C5: after a sizing probe that reports zero bytes needed, list_services
\* reads no record of the buffer and returns the empty list, not an error.
C5_ZeroBytesEmptyList ==
  ProbeSaidZeroBytes =>
     /\ reads = {}
     /\ service_list = <<>>
     /\ pc = "done" => result = [kind |-> "Ok", list |-> <<>>, err |-> Pending]

\* C5 witness: the probe said more data and zero bytes, the fill call was made
\* with the empty buffer, and list_services has returned
C5_Witness ==
  /\ pc = "done"
  /\ ProbeSaidMoreData
  /\ ProbeSaidZeroBytes
  /\ Cardinality(CallsOf("EnumServicesStatusExW(fill)")) = 1
  /\ result.kind = "Ok"

\* the binary path the configuration query of the record named by d reported
ReportedPath(d) ==
  { calls[j].cfg.lpBinaryPathName.text :
      j \in { k \in CallsOf("QueryServiceConfigW(fill)") :
                calls[k].ok /\ calls[k].rec = d.name.of } }

\* C6: in every ServiceDetail list_services builds and returns, the optional
\* configuration fields are all present or all absent; when absent,
\* binary_path is a diagnostic message, and when present, binary_path is the
\* path the configuration query reported.
C6_ConfigFieldsAllOrNone ==
  \A i \in DOMAIN service_list :
     LET d == service_list[i]
     IN  /\ AllPresent(d) \/ AllAbsent(d)
         /\ AllAbsent(d) => HasDiagnostic(d)
         /\ AllPresent(d) => (d.binary_path # None /\ d.binary_path = ReportedPath(d))
         /\ result.kind = "Ok" => result.list = service_list

\* C6 witness: a returned list holding a fully populated and a degraded record
C6_Witness ==
  /\ result.kind = "Ok"
  /\ \E i, j \in DOMAIN result.list :
       /\ AllPresent(result.list[i])
       /\ AllAbsent(result.list[j]) /\ HasDiagnostic(result.list[j])

-----------------------------------------------------------------------------
(* Further properties of list_services and of the exit code *)

\* the loop body is at work on the record the iterator yielded last
InLoopBody == pc \in {"open", "cfg_probe", "cfg_fill", "full", "degraded", "close"}

\* C15: the iterator over the buffer yields exactly lp_services_returned
\* records, the i-th (from 0) read at byte offset i * RecordSize, and then the
\* end of the sequence on every call; no read touches a byte at or beyond
\* lp_services_returned * RecordSize, though the buffer is larger.
C15_IteratorStaysInRecords ==
  /\ reads = { i * RecordSize : i \in 0 .. enum_result.index - 1 }
  /\ \A o \in reads : o + RecordSize <= lp_services_returned * RecordSize
  /\ enum_result.index <= enum_result.size
  /\ InLoopBody => service_status = lp_services.records[enum_result.index]
  /\ pc = "return" =>
       /\ enum_result.index = lp_services_returned
       /\ ~EnumListServiceResult_next(enum_result).some
       /\ EnumListServiceResult_next(enum_result).self = enum_result

\* C15 witness: all the records of a buffer larger than the records have been
\* read and the iterator has reported the end
C15_Witness ==
  /\ pc = "return"
  /\ lp_services_returned = MaxServices
  /\ lp_services.len > lp_services_returned * RecordSize
  /\ Cardinality(reads) = MaxServices

\* the raw record of the i-th service of the buffer
RawStatus(i) == lp_services.records[i].ServiceStatusProcess

\* the configuration the fill call reported for record i, if it succeeded
ReportedConfigs(i) ==
  { calls[j].cfg : j \in { k \in CallsOf("QueryServiceConfigW(fill)") :
                             calls[k].ok /\ calls[k].rec = i } }

\* C16: a record whose current state, or whose fetched configuration's start
\* type or error control, is a code the strict decoder does not recognize
\* makes list_services stop at that record and return the decode error
\* without a list; a record of unrecognized service type causes no error and
\* is emitted with the type InvalidServiceType.
C16_StrictDecodeErrorAborts ==
  /\ \A i \in DOMAIN service_list :
       /\ RawStatus(i).dwCurrentState \in KnownServiceStateCodes
       /\ AllPresent(service_list[i]) =>
            \A cfg \in ReportedConfigs(i) :
               /\ cfg.dwStartType \in KnownServiceStartTypeCodes
               /\ cfg.dwErrorControl \in KnownServiceErrorControlCodes
       /\ RawStatus(i).dwServiceType \notin KnownServiceTypeCodes =>
            service_list[i].status.status.service_type = "InvalidServiceType"
  /\ result.kind = "Err" =>
       LET i == enum_result.index
       IN  /\ pc = "done"
           /\ result.list = <<>>
           /\ Len(service_list) = i - 1
           /\ ~result.err.ok
           /\ IF RawStatus(i).dwCurrentState \notin KnownServiceStateCodes
                THEN result.err.raw = RawStatus(i).dwCurrentState
                ELSE /\ calls[Len(calls)].fn = "QueryServiceConfigW(fill)"
                     /\ calls[Len(calls)].rec = i
                     /\ IF calls[Len(calls)].cfg.dwStartType
                              \notin KnownServiceStartTypeCodes
                          THEN result.err.raw = calls[Len(calls)].cfg.dwStartType
                          ELSE /\ calls[Len(calls)].cfg.dwErrorControl
                                     \notin KnownServiceErrorControlCodes
                               /\ result.err.raw = calls[Len(calls)].cfg.dwErrorControl

\* C16 witness: the second record's configuration has an unrecognized error
\* control, the first record was of unrecognized type and was built
C16_Witness ==
  /\ result.kind = "Err"
  /\ enum_result.index = 2
  /\ Len(service_list) = 1
  /\ service_list[1].status.status.service_type = "InvalidServiceType"
  /\ RawStatus(2).dwCurrentState \in KnownServiceStateCodes
  /\ calls[Len(calls)].cfg.dwStartType \in KnownServiceStartTypeCodes
  /\ result.err.raw = SERVICE_ERROR_CRITICAL + 1

\* C17: at most one service handle is open at any point of list_services, and
\* none is open when the open call for the next record is issued: every handle
\* opened earlier has been released.
C17_OneHandleAtATime ==
  /\ Cardinality(open_handles) <= 1
  /\ pc \in {"next", "open"} =>
       /\ open_handles = {}
       /\ \A h \in OpenedHandles : ReleaseCount(h) = 1

\* C17 witness: the open call for the second record is about to be issued,
\* the first record was fully populated and its handle has been released
C17_Witness ==
  /\ pc = "open"
  /\ enum_result.index = 2
  /\ Len(service_list) = 1
  /\ AllPresent(service_list[1])
  /\ OpenedHandles = {1}
  /\ ReleaseCount(1) = 1

\* C18: the tag_id of every fully populated ServiceDetail is the dwTagId the
\* configuration query reported for that service.
C18_TagIdIsConfigTag ==
  \A i \in DOMAIN service_list :
     AllPresent(service_list[i]) =>
        \A cfg \in ReportedConfigs(i) : service_list[i].tag_id = Some(cfg.dwTagId)

\* C19: no raw status record decodes to Win32(ERROR_SERVICE_SPECIFIC_ERROR): a
\* record with the sentinel in dwWin32ExitCode decodes to
\* ServiceSpecific(dwServiceSpecificExitCode); Win32(sentinel) encoded and
\* decoded is ServiceSpecific(0); an encoded Win32 code has
\* dwServiceSpecificExitCode 0.
C19_SentinelNeverWin32 ==
  /\ exit_decoded # NotDecoded =>
       /\ exit_decoded # Win32(ERROR_SERVICE_SPECIFIC_ERROR)
       /\ raw_service_status.status.dwWin32ExitCode = ERROR_SERVICE_SPECIFIC_ERROR =>
            exit_decoded =
              ServiceSpecific(raw_service_status.status.dwServiceSpecificExitCode)
       /\ (~raw_service_status.process
             /\ exit_code = Win32(ERROR_SERVICE_SPECIFIC_ERROR)) =>
            exit_decoded = ServiceSpecific(0)
  /\ (raw_service_status.written /\ ~raw_service_status.process
        /\ exit_code.tag = "Win32") =>
       raw_service_status.status.dwServiceSpecificExitCode = 0

\* C19 witness: Win32(sentinel) has been encoded and decoded
C19_Witness ==
  /\ exit_code = Win32(ERROR_SERVICE_SPECIFIC_ERROR)
  /\ ~raw_service_status.process
  /\ exit_decoded = ServiceSpecific(0)

-----------------------------------------------------------------------------
(* Properties of the status record *)

\* the status has been encoded and decoded
StatusRoundTripped == status_out.kind # "pending"

\* C11: a ServiceStatus whose wait_hint is a whole number of milliseconds
\* (1500 ms for one) has the same wait_hint after to_raw and from_raw.
C11_WaitHintRoundTrip ==
  StatusRoundTripped =>
     /\ status_out.ok
     /\ status_out.val.wait_hint = status_in.wait_hint

-----------------------------------------------------------------------------
(* Properties of create_service *)

RECURSIVE EscapedArguments(_, _)
\* for each of the first n arguments in order, a space and the escaped argument
EscapedArguments(args, n) ==
  IF n = 0 THEN <<>>
  ELSE EscapedArguments(args, n - 1) \o <<SPACE>> \o shell_escape_escape(args[n])

\* the launch command of the CreateServiceW call issued
IssuedCommand == (CHOOSE c \in create_call : TRUE).launch_command

\* C12: the launch command passed to the create call is the shell-escaped
\* executable path (for a kernel driver the path as given, spaces included)
\* followed, for each launch argument in order, by a space and the
\* shell-escaped argument.
C12_LaunchCommandComposition ==
  create_call # None =>
     IssuedCommand =
        (IF service_info.service_type = "KernelDriver"
         THEN service_info.executable_path
         ELSE shell_escape_escape(service_info.executable_path))
        \o EscapedArguments(service_info.launch_arguments,
                            Len(service_info.launch_arguments))

\* a kernel driver with a space in its path and two different arguments, one
\* of them with a quote, has been created
C12_Witness ==
  /\ create_call # None
  /\ service_info.service_type = "KernelDriver"
  /\ \E i \in DOMAIN service_info.executable_path :
        service_info.executable_path[i] = SPACE
  /\ Len(service_info.launch_arguments) = 2
  /\ service_info.launch_arguments[1] # service_info.launch_arguments[2]
  /\ \E i \in DOMAIN service_info.launch_arguments[2] :
        service_info.launch_arguments[2][i] = DQUOTE

\* the error kinds of the fields that hold a nul
UnencodableFields(info) ==
  (IF HasNul(info.name) THEN {"InvalidServiceName"} ELSE {})
  \cup (IF HasNul(info.display_name) THEN {"InvalidDisplayName"} ELSE {})
  \cup (IF HasNul(info.executable_path) THEN {"InvalidExecutablePath"} ELSE {})
  \cup (IF \E i \in DOMAIN info.launch_arguments : HasNul(info.launch_arguments[i])
        THEN {"InvalidLaunchArgument"} ELSE {})
  \cup (IF \E a \in info.account_name : HasNul(a)
        THEN {"InvalidAccountName"} ELSE {})
  \cup (IF \E a \in info.account_password : HasNul(a)
        THEN {"InvalidAccountPassword"} ELSE {})

\* C13: for every service type, kernel driver included, a ServiceInfo with a
\* field that holds an embedded nul makes create_service return the error of
\* such a field, without issuing the create call and without panicking.
C13_UnencodableFieldIsAnError ==
  /\ create_result.kind # "abort"
  /\ UnencodableFields(service_info) # {} =>
        /\ create_call = None
        /\ create_pc = "done" =>
              /\ create_result.kind = "Err"
              /\ create_result.err \in UnencodableFields(service_info)

-----------------------------------------------------------------------------
(* Properties of Service *)

\* the positions of the calls of the given platform function
ServiceCallsOf(fn) == { i \in DOMAIN svc_calls : svc_calls[i].fn = fn }

\* C14: once delete has been invoked on a Service, whether DeleteService
\* succeeded or failed, no further query, control or delete call is issued
\* on the Service's handle, and the handle is released exactly once.
C14_NothingAfterDelete ==
  \A i \in ServiceCallsOf("DeleteService") :
     /\ \A j \in i + 1 .. Len(svc_calls) :
           svc_calls[j].handle = svc_calls[i].handle =>
              svc_calls[j].fn = "CloseServiceHandle"
     /\ Cardinality({ j \in ServiceCallsOf("CloseServiceHandle") :
                        svc_calls[j].handle = svc_calls[i].handle }) = 1

\* a Service that was queried and stopped has been deleted, and DeleteService
\* reported failure
C14_Witness ==
  /\ ServiceCallsOf("QueryServiceStatus") # {}
  /\ ServiceCallsOf("ControlService") # {}
  /\ \E i \in ServiceCallsOf("DeleteService") : ~svc_calls[i].ok
  /\ svc_result.kind = "Err"
  /\ ~service.owned

====
